---- MODULE Spec2Model ----
(***************************************************************************)
(* Gmail push-notification pipeline of google-mcp-oauth:                   *)
(*   - googlePubSubOidcAuthMiddleware   (src/api/lib/google-auth.ts)       *)
(*   - POST /webhooks/email-notify      (src/api/index.ts)                 *)
(*   - GoogleService.listInboxAddsSince / startGmailWatch / commitHistory  *)
(*                                      (src/api/GoogleService.ts)         *)
(*   - getServerCursor / putServerCursor on the GMAIL_HISTORY_KV namespace *)
(* Every await of the handlers is a point where other requests interleave, *)
(* so each action below is the code between two awaits.                    *)
(***************************************************************************)
EXTENDS Integers, Sequences, FiniteSets, TLC

VARIABLES
    kv,        \* GMAIL_HISTORY_KV: key -> stored string, or null
    mailLen,   \* number of history records of the watched mailbox (ids 1..mailLen)
    arrivals,  \* messages that reached the inbox since the initial state
    slots,     \* request slots the dispatch layer uses
    req,       \* per slot: the request being handled, its locals and its trace
    prev,      \* the delivery processed last, while nothing else has happened since
    body,      \* envelope handed to the decoder (decoder-only specification)
    decoded,   \* what the decoder extracted from body
    presented  \* claims handed to the verifier (verifier-only specification)

vars == <<kv, mailLen, arrivals, slots, req, prev, body, decoded, presented>>

----------------------------------------------------------------------------
(* Bounds of the environment *)

\* messages that may arrive in the inbox during a run
MaxArrivals == 1

\* history records already in the mailbox in the backlog scenario
BacklogLen == 11

\* messages in the mailbox when two deliveries race
RaceMail == 2

\* pages the history endpoint serves when its raw pages are enumerated
MaxRawPages == 5

\* added messages an endlessly paging history endpoint reports
MaxEndlessItems == 3

----------------------------------------------------------------------------
(* JavaScript values *)

undefined == "<undefined>"
null == "<null>"

\* !v for the string-or-nullish values the handlers test
Falsy(v) == v \in {undefined, null, ""}

\* a ?? b
Nullish(a, b) == IF a \in {undefined, null} THEN b ELSE a

\* `${v}`
TemplateLiteral(v) ==
    IF v = undefined THEN "undefined"
    ELSE IF v = null THEN "null"
    ELSE v

----------------------------------------------------------------------------
(* Names, headers and keys *)

Reqs == {"r1", "r2"}

Servers == {"serverA", "serverB"}

\* values of the x-mcp-name header (undefined: header not sent)
NameHeaders == Servers \cup {undefined}

\* values of the x-mcp-authorization header
McpAuthHeaders == {undefined, "Bearer ", "Bearer tok123"}

\* authHeader.slice(7).trim()
SliceBearer(h) ==
    CASE h = "Bearer tok123" -> "tok123"
      [] h = "Bearer " -> ""
      [] OTHER -> ""

\* one key shared by every server
CursorKeyShared(serverName) == "cursor:serverA"

\* `cursor:${serverName}`
CursorKey(serverName) == "cursor:" \o TemplateLiteral(serverName)

Keys == {CursorKey(s) : s \in Servers}

GOOGLE_PROJECT_NAME == "proj"

RequestUrl == "https://host/webhooks/email-notify"

\* env.GMAIL_HISTORY_KV.get(`cursor:${serverName}`)
getServerCursor(store, serverName) == store[CursorKey(serverName)]

\* Gmail history ids are decimal numbers
HistRange == 0..(BacklogLen + MaxArrivals)

IsHistoryId(s) == \E n \in HistRange : ToString(n) = s

ParseHistoryId(s) == CHOOSE n \in HistRange : ToString(n) = s

\* a put that never moves a numeric checkpoint backwards
putServerCursorMonotonic(store, serverName, historyId) ==
    LET old == store[CursorKey(serverName)] IN
    IF /\ IsHistoryId(old)
       /\ IsHistoryId(historyId)
       /\ ParseHistoryId(old) > ParseHistoryId(historyId)
    THEN store
    ELSE [store EXCEPT ![CursorKey(serverName)] = historyId]

\* env.GMAIL_HISTORY_KV.put(`cursor:${serverName}`, historyId)
putServerCursor(store, serverName, historyId) ==
    [store EXCEPT ![CursorKey(serverName)] = historyId]

\* push-invoker-<x-mcp-name>@<project>.iam.gserviceaccount.com
saEmailFor(name) ==
    "push-invoker-" \o TemplateLiteral(name) \o "@" \o GOOGLE_PROJECT_NAME
        \o ".iam.gserviceaccount.com"

----------------------------------------------------------------------------
(* Pub/Sub envelope and its decoding (index.ts, email-notify handler) *)

\* message.data: absent, not base64, base64 of non-JSON text, or base64url of
\* a JSON object whose two fields are each missing, null or a string
DataBlobs ==
    {[kind |-> k, emailAddress |-> undefined, historyId |-> undefined] :
        k \in {"absent", "badb64", "text"}}
    \cup
    {[kind |-> "json", emailAddress |-> e, historyId |-> h] :
        e \in {undefined, null, "a@x.com"}, h \in {undefined, null, "1", "2"}}

\* message.attributes: a flat string map that may duplicate the two fields
AttrMaps ==
    {[emailAddress |-> e, historyId |-> h] :
        e \in {undefined, "b@x.com"}, h \in {undefined, "3"}}

\* request bodies: parse = "bad" is a body c.req.json() cannot parse
Bodies ==
    {[parse |-> "ok", data |-> d, attributes |-> a] : d \in DataBlobs, a \in AttrMaps}
    \cup
    {[parse |-> "bad",
      data |-> [kind |-> "absent", emailAddress |-> undefined, historyId |-> undefined],
      attributes |-> [emailAddress |-> undefined, historyId |-> undefined]]}

NoBody ==
    [parse |-> "none",
     data |-> [kind |-> "absent", emailAddress |-> undefined, historyId |-> undefined],
     attributes |-> [emailAddress |-> undefined, historyId |-> undefined]]

\* atob(std + padding): throws on characters outside the base64 alphabet
AtobThrows(data) == data.kind = "badb64"

\* JSON.parse(decoded) followed by the two property reads; a throw is swallowed
\* by the inner catch and leaves both locals undefined
ParsePayload(data) ==
    IF data.kind = "json"
    THEN [emailAddress |-> data.emailAddress, historyId |-> data.historyId]
    ELSE [emailAddress |-> undefined, historyId |-> undefined]

\* the two sides of ?? swapped: attributes win over the payload
FallbackFieldAttributesFirst(fromPayload, fromAttributes) ==
    Nullish(fromAttributes, fromPayload)

\* emailAddress ?? attributes.emailAddress, historyId ?? attributes.historyId
FallbackField(fromPayload, fromAttributes) == Nullish(fromPayload, fromAttributes)

\* lines 263-280: threw = the exception escapes to the handler's outer catch
DecodeEnvelope(b) ==
    IF AtobThrows(b.data)
    THEN [threw |-> TRUE, emailAddress |-> undefined, historyId |-> undefined]
    ELSE LET p == ParsePayload(b.data) IN
         [threw |-> FALSE,
          emailAddress |-> FallbackField(p.emailAddress, b.attributes.emailAddress),
          historyId |-> FallbackField(p.historyId, b.attributes.historyId)]

NoDecoded == [threw |-> FALSE, emailAddress |-> "<none>", historyId |-> "<none>"]

----------------------------------------------------------------------------
(* Upstream Gmail history, as users.history.list serves it *)

\* id of the message added by history record i
MessageOf(i) == "m" \o ToString(i)

\* index of the page a pageToken names (no token: page 0)
PageIndex(pageToken) ==
    IF pageToken = undefined THEN 0 ELSE ParseHistoryId(pageToken)

\* The responses the history endpoint can give to
\*   GET history?startHistoryId=<start>&labelId=INBOX&historyTypes=messageAdded[&pageToken=..]
\* while the mailbox holds len records: one record per page, records newer
\* than start only, a continuation token while more records remain, and the
\* mailbox's current historyId (a page may omit it).  ok = FALSE is a non-2xx
\* answer: always possible, and the only answer to a start that is no history id.
HistoryList(start, pageToken, len) ==
    {[ok |-> FALSE, history |-> <<>>, historyId |-> undefined, nextPageToken |-> undefined]}
    \cup
    (IF ~IsHistoryId(start) THEN {}
     ELSE LET rec == ParseHistoryId(start) + 1 + PageIndex(pageToken) IN
          {[ok |-> TRUE,
            history |-> IF rec <= len THEN <<MessageOf(rec)>> ELSE <<>>,
            historyId |-> h,
            nextPageToken |-> IF rec < len
                              THEN ToString(PageIndex(pageToken) + 1)
                              ELSE undefined] :
              h \in {undefined, ToString(len)}})

----------------------------------------------------------------------------
(* Requests *)

\* Authorization header of a push: none, a non-Bearer scheme, or a bearer
\* id_token whose exp claim is fresh, within 30 s of expiry, or undecodable
AuthorizationHeaders ==
    {undefined, "Basic dXNlcg==", "Bearer idt.fresh", "Bearer idt.stale", "Bearer idt.opaque"}

\* auth.startsWith("Bearer ")
StartsWithBearer(auth) ==
    auth \in {"Bearer idt.fresh", "Bearer idt.stale", "Bearer idt.opaque"}

\* decode(idToken).payload.exp < Date.now() / 1000 + 30
ExpIsStale(auth) == auth = "Bearer idt.stale"

\* JS booleans next to the strings "true" / "false"
jsTrue == "<true>"
jsFalse == "<false>"

\* aud claims: the request URL itself, a sub-path of it, the URL with a query
\* string or a fragment, and the same path on another origin
Audiences ==
    {RequestUrl, RequestUrl \o "/x", RequestUrl \o "?q=1", RequestUrl \o "#f",
     "https://other/webhooks/email-notify"}

\* claim sets the tokeninfo endpoint may return for an id_token it accepts
TokenClaims ==
    {[iss |-> i, aud |-> a, email |-> e, email_verified |-> v] :
        i \in {"https://accounts.google.com", "accounts.google.com", "https://evil.example"},
        a \in Audiences,
        e \in {saEmailFor(n) : n \in NameHeaders},
        v \in {jsTrue, "true", jsFalse, "false"}}

NoClaims == [iss |-> "", aud |-> "", email |-> "", email_verified |-> ""]

\* a response body: error is the error member; reqResponseCode and
\* reqResponseContent are the proxy members; hasPrompt says the body has a
\* top-level promptContent (built from name, emailAddress, emailIds) and
\* hasProcessData that it has a processData member
NoResp ==
    [status |-> 0, error |-> "", reqResponseCode |-> 0,
     reqResponseContent |-> undefined, hasProcessData |-> FALSE, hasPrompt |-> FALSE,
     name |-> "", emailAddress |-> "", emailIds |-> <<>>]

\* c.json({ error }, status) and the response of a thrown HTTPException
ErrorResp(status, message) == [NoResp EXCEPT !.status = status, !.error = message]

\* no delivery has been processed since the mailbox or the store last changed
NoPrev == [valid |-> FALSE, name |-> "", historyId |-> "", emailAddress |-> ""]

\* the delivery rq, processed to its 202 response
PrevOf(rq) ==
    [valid |-> TRUE, name |-> rq.name, historyId |-> rq.historyId,
     emailAddress |-> rq.emailAddress]

IdleReq ==
    [pc |-> "idle",
     name |-> undefined,              \* x-mcp-name header
     verified |-> FALSE,              \* the middleware accepted the id_token
     headers |-> {},                  \* headers set with c.header(..)
     emailAddress |-> undefined,      \* handler locals
     historyId |-> undefined,
     authHeader |-> undefined,        \* x-mcp-authorization header, once read
     accessToken |-> "",
     latestHistoryId |-> "",
     lastHistoryId |-> null,
     startHistoryId |-> "",           \* listInboxAddsSince locals
     messageIds |-> <<>>,
     enumLatest |-> "",
     pageToken |-> undefined,
     pages |-> 0,
     hasMore |-> FALSE,
     returned |-> FALSE,              \* listInboxAddsSince has returned
     follows |-> FALSE,               \* arrived right after a processed delivery
     repeats |-> FALSE,               \* ... and is identical to it
     log |-> <<>>,                    \* outbound calls and the response, in order
     resp |-> NoResp]

Ev(op, k, v) == [op |-> op, k |-> k, v |-> v]

\* the request ends with the given response
Respond(rq, response) ==
    [rq EXCEPT !.pc = "done", !.resp = response,
               !.log = Append(@, Ev("resp", ToString(response.status), response.error))]

----------------------------------------------------------------------------
(* googlePubSubOidcAuthMiddleware (google-auth.ts) *)

\* claim checks that stop after the signer email
ClaimsVerdictEmailUnverified(claims, expectedAudience, configuredEmail) ==
    IF claims.iss # "https://accounts.google.com" THEN "Invalid issuer"
    ELSE IF claims.aud # expectedAudience THEN "Invalid audience"
    ELSE IF claims.email # configuredEmail THEN "Invalid signer email"
    ELSE "ok"

\* lines 112-136: the message of the HTTPException thrown for the claims, or
\* "ok" when every check passes
ClaimsVerdict(claims, expectedAudience, configuredEmail) ==
    IF claims.iss # "https://accounts.google.com" THEN "Invalid issuer"
    ELSE IF claims.aud # expectedAudience THEN "Invalid audience"
    ELSE IF claims.email # configuredEmail THEN "Invalid signer email"
    ELSE IF ~(claims.email_verified = jsTrue \/ claims.email_verified = "true")
         THEN "Service account email not verified"
    ELSE "ok"

\* lines 40-95: a request arrives; the middleware runs up to the tokeninfo fetch
Arrive(r) ==
    /\ r \in slots
    /\ req[r].pc \in {"idle", "done"}
    /\ \E auth \in AuthorizationHeaders, name \in NameHeaders :
         LET rq == [IdleReq EXCEPT !.name = name, !.follows = prev.valid] IN
         req' = [req EXCEPT ![r] =
             IF ~(auth # undefined /\ StartsWithBearer(auth))
             THEN Respond([rq EXCEPT !.headers = {"WWW-Authenticate"}],
                          ErrorResp(401, "Missing or invalid bearer token"))
             ELSE \* the HTTPException of the local exp check is thrown inside
                  \* the try block and caught by its own catch
                  [rq EXCEPT !.pc = "tokeninfo",
                             !.headers = IF ExpIsStale(auth)
                                         THEN {"WWW-Authenticate", "Cache-Control", "Pragma"}
                                         ELSE {},
                             !.log = Append(@, Ev("tokeninfo", "", ""))]]
    /\ UNCHANGED <<kv, mailLen, arrivals, slots, prev, body, decoded, presented>>

\* line 141: next() runs the handler up to its first await, c.req.json()
CallNext(rq) == [rq EXCEPT !.pc = "body"]

\* a failed check that logs but does not throw
AfterVerdictNoThrow(rq, verdict) ==
    IF verdict = "ok" THEN CallNext([rq EXCEPT !.verified = TRUE]) ELSE CallNext(rq)

\* lines 112-141: a failed check throws HTTPException(401); otherwise the
\* claims are stashed (c.set) and next() is called
AfterVerdict(rq, verdict) ==
    IF verdict = "ok"
    THEN CallNext([rq EXCEPT !.verified = TRUE])
    ELSE Respond(rq, ErrorResp(401, verdict))

\* lines 69-78 and 110-141: the claims of an accepted id_token are checked
\* against c.req.url and saEmailFor(c)
CheckClaims(rq, claims) ==
    AfterVerdict(rq, ClaimsVerdict(claims, RequestUrl, saEmailFor(rq.name)))

\* lines 91-141: the tokeninfo fetch settles
TokenInfoReturn(r) ==
    /\ req[r].pc = "tokeninfo"
    /\ \/ \* fetch rejects: the exception leaves the middleware, Hono answers 500
          req' = [req EXCEPT ![r] = Respond(@, ErrorResp(500, "Internal Server Error"))]
       \/ \* !verifyResp.ok
          req' = [req EXCEPT ![r] = Respond(@, ErrorResp(401, "Invalid id_token"))]
       \/ \E claims \in TokenClaims :
          req' = [req EXCEPT ![r] = CheckClaims(@, claims)]
    /\ UNCHANGED <<kv, mailLen, arrivals, slots, prev, body, decoded, presented>>

----------------------------------------------------------------------------
(* GoogleService.listInboxAddsSince (GoogleService.ts) *)

pageLimit == 10

\* lines 433-436: the locals at entry
EnumEnter(rq, startHistoryId) ==
    [rq EXCEPT !.startHistoryId = startHistoryId,
               !.messageIds = <<>>,
               !.enumLatest = startHistoryId,
               !.pageToken = undefined,
               !.pages = 0,
               !.hasMore = FALSE,
               !.returned = FALSE]

\* line 439: pages++ > pageLimit, evaluated on the value before the increment
BoundReached(pages) == pages > pageLimit

\* enumerating from the cursor the delivery carries
EnumArgumentFromEnvelope(rq) == rq.latestHistoryId

\* the start cursor the handler hands to the enumerator (index.ts line 325)
EnumArgument(rq) == rq.lastHistoryId

\* index.ts lines 321-333: the enumerator returned; the handler issues the put
\* of the delivery's own cursor
EnumReturn(rq, hasMore) ==
    [rq EXCEPT !.hasMore = hasMore, !.returned = TRUE, !.pc = "put"]

\* lines 438-448: top of the while loop: return truncated, or request a page
LoopHead(rq) ==
    IF BoundReached(rq.pages)
    THEN EnumReturn([rq EXCEPT !.pages = @ + 1], TRUE)
    ELSE [rq EXCEPT !.pages = @ + 1,
                    !.pc = "page",
                    !.log = Append(@, Ev("list", rq.startHistoryId, rq.pageToken))]

\* lines 450-460: fold one page into the accumulated result
FoldPage(rq, data) ==
    [rq EXCEPT !.messageIds = @ \o data.history,
               !.enumLatest = IF Falsy(data.historyId) THEN @ ELSE data.historyId]

\* a loop that requests the next page without passing the page bound
AfterPageUnbounded(rq, data) ==
    IF Falsy(data.nextPageToken)
    THEN EnumReturn(rq, FALSE)
    ELSE [rq EXCEPT !.pageToken = data.nextPageToken]

\* lines 462-468: stop on a page without continuation token, else loop
AfterPage(rq, data) ==
    IF Falsy(data.nextPageToken)
    THEN EnumReturn(rq, FALSE)
    ELSE LoopHead([rq EXCEPT !.pageToken = data.nextPageToken])

----------------------------------------------------------------------------
(* POST /webhooks/email-notify (index.ts lines 247-372) *)

\* line 364-370: the outer catch answers 400 with the exception's message
Caught(rq, message) == Respond(rq, ErrorResp(400, message))

\* lines 335-363: the 202 proxy response
SuccessResp(rq) ==
    IF Len(rq.messageIds) = 0
    THEN [NoResp EXCEPT !.status = 200, !.reqResponseCode = 202,
                        !.reqResponseContent = ""]
    ELSE [NoResp EXCEPT !.status = 200, !.reqResponseCode = 202,
                        !.reqResponseContent = "",
                        !.hasPrompt = TRUE,
                        !.name = rq.name,
                        !.emailAddress = rq.emailAddress,
                        !.emailIds = rq.messageIds]

\* line 307: const latestHistoryId = `${historyId}`
LatestHistoryIdOf(historyId) == TemplateLiteral(historyId)

\* header checks that let a blank access token through
HeaderErrorTokenUnchecked(name, authHeader) ==
    IF Falsy(name) THEN "missing server name"
    ELSE IF Falsy(authHeader) THEN "missing MCP authorization header"
    ELSE ""

\* lines 285-306: the error of the x-mcp-name / x-mcp-authorization checks,
\* "" when both headers are present and the access token is not blank
HeaderError(name, authHeader) ==
    IF Falsy(name) THEN "missing server name"
    ELSE IF Falsy(authHeader) THEN "missing MCP authorization header"
    ELSE IF Falsy(SliceBearer(authHeader)) THEN "missing access token"
    ELSE ""

\* lines 253-308: body read, envelope decode, header checks, up to the
\* checkpoint read
HandlerDecode(r) ==
    /\ req[r].pc = "body"
    /\ \E b \in Bodies, authHeader \in McpAuthHeaders :
         LET rq == [req[r] EXCEPT !.authHeader = authHeader]
             d == DecodeEnvelope(b)
             message == HeaderError(rq.name, authHeader)
         IN req' = [req EXCEPT ![r] =
              IF b.parse = "bad" THEN Caught(rq, "Unexpected token")
              ELSE IF d.threw THEN Caught(rq, "Invalid character")
              ELSE IF message # "" THEN Respond(rq, ErrorResp(400, message))
              ELSE [rq EXCEPT !.emailAddress = d.emailAddress,
                              !.historyId = d.historyId,
                              !.accessToken = SliceBearer(authHeader),
                              !.latestHistoryId = LatestHistoryIdOf(d.historyId),
                              !.pc = "get"]]
    /\ UNCHANGED <<kv, mailLen, arrivals, slots, prev, body, decoded, presented>>

\* a check that only recognises undefined, while KV.get answers null
MissingCursorUndefinedOnly(lastHistoryId) == lastHistoryId = undefined

\* line 310: !lastHistoryId
MissingCursor(lastHistoryId) == Falsy(lastHistoryId)

\* lines 308-325: the checkpoint read settles; without a checkpoint the
\* delivery is refused, otherwise enumeration starts from the stored cursor
GetReturn(r) ==
    /\ req[r].pc = "get"
    /\ \/ \* the KV read rejects
          req' = [req EXCEPT ![r] = Caught(@, "KV GET failed")]
       \/ LET lastHistoryId == getServerCursor(kv, req[r].name)
              rq == [req[r] EXCEPT
                        !.lastHistoryId = lastHistoryId,
                        !.log = Append(@, Ev("get", CursorKey(req[r].name), lastHistoryId))]
          IN req' = [req EXCEPT ![r] =
               IF MissingCursor(lastHistoryId)
               THEN Respond(rq, ErrorResp(400, "missing last processed history ID"))
               ELSE LoopHead(EnumEnter(rq, EnumArgument(rq)))]
    /\ UNCHANGED <<kv, mailLen, arrivals, slots, prev, body, decoded, presented>>

\* GoogleService.ts lines 448-466: a history page request settles
PageReturn(r) ==
    /\ req[r].pc = "page"
    /\ \E data \in HistoryList(req[r].startHistoryId, req[r].pageToken, mailLen) :
         req' = [req EXCEPT ![r] =
            IF ~data.ok
            THEN Caught(@, "Google API error")
            ELSE AfterPage(FoldPage(@, data), data)]
    /\ UNCHANGED <<kv, mailLen, arrivals, slots, prev, body, decoded, presented>>

\* One history record as users.history.list returns it: the message ids of its
\* messagesAdded entries (undefined for an entry without message.id) and of its
\* labelsAdded entries.  Ids "m.." are used for added messages and "x.." for
\* messages that only changed labels; Gmail may name one message in several
\* records.
RawRecords ==
    {[messagesAdded |-> a, labelsAdded |-> l] :
        a \in {<<>>, <<"m1">>, <<"m2">>, <<undefined>>},
        l \in {<<>>, <<"x1">>}}

\* data.history of one page: missing, or a list of records
RawHistories == {<<>>} \cup {<<h>> : h \in RawRecords}

\* GoogleService.ts lines 450-457: the ids pushed for one page, in order
RECURSIVE CollectAdded(_)
CollectAdded(history) ==
    IF history = <<>> THEN <<>>
    ELSE SelectSeq(Head(history).messagesAdded, LAMBDA id : ~Falsy(id))
            \o CollectAdded(Tail(history))

\* GoogleService.ts lines 448-466: a history page request settles with a raw
\* page; the endpoint hands out a continuation token for at most MaxRawPages
\* pages
RawPageReturn(r) ==
    /\ req[r].pc = "page"
    /\ \E history \in RawHistories, historyId \in {undefined, "1"}, more \in BOOLEAN :
         LET data == [ok |-> TRUE,
                      history |-> CollectAdded(history),
                      historyId |-> historyId,
                      nextPageToken |-> IF more /\ req[r].pages < MaxRawPages
                                        THEN ToString(req[r].pages)
                                        ELSE undefined]
         IN req' = [req EXCEPT ![r] = AfterPage(FoldPage(@, data), data)]
    /\ UNCHANGED <<kv, mailLen, arrivals, slots, prev, body, decoded, presented>>

\* GoogleService.ts lines 448-466: a history page request settles against an
\* endpoint that hands out a continuation token with every page; a page holds
\* at most one added message, and the mailbox holds MaxEndlessItems of them
EndlessPageReturn(r) ==
    /\ req[r].pc = "page"
    /\ \E history \in {<<>>, <<"m1">>}, historyId \in {undefined, "1", "2"} :
         LET data == [ok |-> TRUE,
                      history |-> IF Len(req[r].messageIds) < MaxEndlessItems
                                  THEN history ELSE <<>>,
                      historyId |-> historyId,
                      nextPageToken |-> "next"]
         IN req' = [req EXCEPT ![r] = AfterPage(FoldPage(@, data), data)]
    /\ UNCHANGED <<kv, mailLen, arrivals, slots, prev, body, decoded, presented>>

\* the value the handler writes as the new checkpoint (line 333)
PutArgument(rq) == rq.latestHistoryId

\* a checkpoint write that is not awaited: its failure goes unnoticed
PutReturnNotAwaited(r) ==
    /\ req[r].pc = "put"
    /\ \/ /\ req' = [req EXCEPT ![r] = Respond(@, SuccessResp(@))]
          /\ kv' = kv
          /\ prev' = NoPrev
       \/ /\ kv' = putServerCursor(kv, req[r].name, PutArgument(req[r]))
          /\ req' = [req EXCEPT ![r] =
                Respond([@ EXCEPT !.log = Append(@, Ev("put", CursorKey(req[r].name),
                                                       PutArgument(req[r])))],
                        SuccessResp(@))]
          /\ prev' = PrevOf(req[r])
    /\ UNCHANGED <<mailLen, arrivals, slots, body, decoded, presented>>

\* lines 333-363: the checkpoint write settles, then the response is built
PutReturn(r) ==
    /\ req[r].pc = "put"
    /\ \/ \* the KV write rejects
          /\ req' = [req EXCEPT ![r] = Caught(@, "KV PUT failed")]
          /\ kv' = kv
          /\ prev' = NoPrev
       \/ /\ kv' = putServerCursor(kv, req[r].name, PutArgument(req[r]))
          /\ req' = [req EXCEPT ![r] =
                Respond([@ EXCEPT !.log = Append(@, Ev("put", CursorKey(req[r].name),
                                                       PutArgument(req[r]))),
                                  !.repeats = req[r].follows /\ prev = PrevOf(req[r])],
                        SuccessResp(@))]
          /\ prev' = PrevOf(req[r])
    /\ UNCHANGED <<mailLen, arrivals, slots, body, decoded, presented>>

----------------------------------------------------------------------------
(* MCP tools and the mailbox *)

\* GoogleService.startGmailWatch: users.watch returns the mailbox's current
\* historyId, which becomes the checkpoint of serverName
startGmailWatch(serverName) ==
    /\ kv' = putServerCursor(kv, serverName, ToString(mailLen))
    /\ prev' = NoPrev
    /\ UNCHANGED <<mailLen, arrivals, slots, req, body, decoded, presented>>

\* historyId arguments of the commitHistory tool
CommitIds == {"2"}

\* GoogleService.commitHistory
commitHistory(serverName, historyId) ==
    /\ kv' = putServerCursor(kv, serverName, historyId)
    /\ prev' = NoPrev
    /\ UNCHANGED <<mailLen, arrivals, slots, req, body, decoded, presented>>

\* a message reaches the inbox: one more history record
NewMail ==
    /\ arrivals < MaxArrivals
    /\ mailLen' = mailLen + 1
    /\ arrivals' = arrivals + 1
    /\ prev' = NoPrev
    /\ UNCHANGED <<kv, slots, req, body, decoded, presented>>

----------------------------------------------------------------------------
(* Specifications *)

Init ==
    /\ kv = [k \in Keys |-> null]
    /\ mailLen = 0
    /\ arrivals = 0
    /\ slots = {"r1"}
    /\ req = [r \in Reqs |-> IdleReq]
    /\ prev = NoPrev
    /\ body = NoBody
    /\ decoded = NoDecoded
    /\ presented = NoClaims

Next ==
    \/ \E r \in Reqs : Arrive(r)
    \/ \E r \in Reqs : TokenInfoReturn(r)
    \/ \E r \in Reqs : HandlerDecode(r)
    \/ \E r \in Reqs : GetReturn(r)
    \/ \E r \in Reqs : PageReturn(r)
    \/ \E r \in Reqs : PutReturn(r)
    \/ \E s \in Servers : startGmailWatch(s)
    \/ \E s \in Servers, h \in CommitIds : commitHistory(s, h)
    \/ NewMail

Spec == Init /\ [][Next]_vars

\* serverA was watched when the mailbox was empty and BacklogLen messages
\* have arrived since; no delivery has been processed yet
InitBacklog ==
    /\ kv = [k \in Keys |-> IF k = CursorKey("serverA") THEN "0" ELSE null]
    /\ mailLen = BacklogLen
    /\ arrivals = 0
    /\ slots = {"r1"}
    /\ req = [r \in Reqs |-> IdleReq]
    /\ prev = NoPrev
    /\ body = NoBody
    /\ decoded = NoDecoded
    /\ presented = NoClaims

\* deliveries working off the backlog while mail keeps arriving; no tool calls
NextBacklog ==
    \/ \E r \in Reqs : Arrive(r)
    \/ \E r \in Reqs : TokenInfoReturn(r)
    \/ \E r \in Reqs : HandlerDecode(r)
    \/ \E r \in Reqs : GetReturn(r)
    \/ \E r \in Reqs : PageReturn(r)
    \/ \E r \in Reqs : PutReturn(r)
    \/ NewMail

SpecBacklog == InitBacklog /\ [][NextBacklog]_vars

\* two deliveries in flight at once: both passed the verifier and the header
\* checks and are about to read the checkpoint; both servers were watched when
\* the mailbox was empty and RaceMail messages have arrived since
RaceReq(name, historyId) ==
    [IdleReq EXCEPT !.pc = "get",
                    !.name = name,
                    !.verified = TRUE,
                    !.emailAddress = "a@x.com",
                    !.historyId = historyId,
                    !.authHeader = "Bearer tok123",
                    !.accessToken = SliceBearer("Bearer tok123"),
                    !.latestHistoryId = LatestHistoryIdOf(historyId),
                    !.log = <<Ev("tokeninfo", "", "")>>]

InitRace ==
    /\ kv = [k \in Keys |-> "0"]
    /\ mailLen = RaceMail
    /\ arrivals = 0
    /\ slots = {}
    /\ \E n1, n2 \in Servers, h1, h2 \in {"1", "2"} :
         req = [r \in Reqs |-> IF r = "r1" THEN RaceReq(n1, h1) ELSE RaceReq(n2, h2)]
    /\ prev = NoPrev
    /\ body = NoBody
    /\ decoded = NoDecoded
    /\ presented = NoClaims

NextRace ==
    \/ \E r \in Reqs : GetReturn(r)
    \/ \E r \in Reqs : PageReturn(r)
    \/ \E r \in Reqs : PutReturn(r)

SpecRace == InitRace /\ [][NextRace]_vars

\* the enumerator on its own: a delivery for serverA has read checkpoint "0"
\* and issued its first history request; the endpoint answers with raw pages
InitRawPages ==
    /\ kv = [k \in Keys |-> "0"]
    /\ mailLen = 0
    /\ arrivals = 0
    /\ slots = {}
    /\ req = [r \in Reqs |->
                IF r = "r1"
                THEN LoopHead(EnumEnter(
                        [RaceReq("serverA", "1") EXCEPT
                            !.lastHistoryId = "0",
                            !.log = Append(@, Ev("get", CursorKey("serverA"), "0"))],
                        "0"))
                ELSE IdleReq]
    /\ prev = NoPrev
    /\ body = NoBody
    /\ decoded = NoDecoded
    /\ presented = NoClaims

NextRawPages == \E r \in Reqs : RawPageReturn(r)

SpecRawPages == InitRawPages /\ [][NextRawPages]_vars

\* the enumerator against an endpoint that never stops paging; every upstream
\* call the delivery awaits settles (weak fairness of the page and put steps)
NextEndless ==
    \/ \E r \in Reqs : EndlessPageReturn(r)
    \/ \E r \in Reqs : PutReturn(r)

SpecEndless ==
    /\ InitRawPages
    /\ [][NextEndless]_vars
    /\ WF_vars(\E r \in Reqs : EndlessPageReturn(r))
    /\ WF_vars(\E r \in Reqs : PutReturn(r))

\* the envelope decoder on its own: any body, decoded once
InitDecode ==
    /\ kv = [k \in Keys |-> null]
    /\ mailLen = 0
    /\ arrivals = 0
    /\ slots = {}
    /\ req = [r \in Reqs |-> IdleReq]
    /\ prev = NoPrev
    /\ body \in {b \in Bodies : b.parse = "ok"}
    /\ decoded = NoDecoded
    /\ presented = NoClaims

Decode ==
    /\ decoded = NoDecoded
    /\ decoded' = DecodeEnvelope(body)
    /\ UNCHANGED <<kv, mailLen, arrivals, slots, req, prev, body, presented>>

NextDecode == Decode

SpecDecode == InitDecode /\ [][NextDecode]_vars

\* the claim checks on their own: a bearer push for any server name is waiting
\* for tokeninfo, which accepts the id_token and returns the presented claims
InitVerify ==
    /\ kv = [k \in Keys |-> null]
    /\ mailLen = 0
    /\ arrivals = 0
    /\ slots = {}
    /\ \E name \in NameHeaders :
         req = [r \in Reqs |->
                  IF r = "r1"
                  THEN [IdleReq EXCEPT !.name = name, !.pc = "tokeninfo",
                                       !.log = <<Ev("tokeninfo", "", "")>>]
                  ELSE IdleReq]
    /\ prev = NoPrev
    /\ body = NoBody
    /\ decoded = NoDecoded
    /\ presented \in TokenClaims

Verify ==
    /\ req["r1"].pc = "tokeninfo"
    /\ req' = [req EXCEPT !["r1"] = CheckClaims(@, presented)]
    /\ UNCHANGED <<kv, mailLen, arrivals, slots, prev, body, decoded, presented>>

NextVerify == Verify

SpecVerify == InitVerify /\ [][NextVerify]_vars

----------------------------------------------------------------------------
(* Traces of a request *)

\* positions of the events of kind op in the trace of request r
EventsOf(r, op) == {i \in DOMAIN req[r].log : req[r].log[i].op = op}

\* the request made a checkpoint or history call
DidCursorWork(r) ==
    EventsOf(r, "get") \cup EventsOf(r, "list") \cup EventsOf(r, "put") # {}

InHandler(r) == req[r].pc \in {"body", "get", "page", "put"}

Done(r) == req[r].pc = "done"

Succeeded(r) == Done(r) /\ req[r].resp.reqResponseCode = 202

----------------------------------------------------------------------------
(* Claims *)

\* C1: a push whose bearer id_token is missing or is rejected by the verifier
\* never reaches the email-notify handler: the request is not in the handler,
\* and its trace holds no checkpoint get, no history listing and no checkpoint
\* put; a 401 answer is only ever given to such a request.
C1_RejectedPushDoesNoCursorWork ==
    \A r \in Reqs :
        /\ ~req[r].verified => ~InHandler(r) /\ ~DidCursorWork(r)
        /\ (Done(r) /\ req[r].resp.status = 401) => ~req[r].verified

C1_Witness ==
    \E r \in Reqs :
        /\ Done(r)
        /\ req[r].resp.status = 401
        /\ req[r].resp.error = "Invalid signer email"
        /\ EventsOf(r, "tokeninfo") # {}

\* C2: a delivery whose checkpoint read returns absent is answered 400, never
\* 202; it makes no history request and no checkpoint put, and the step in
\* which it finds no checkpoint leaves the store as it was, so the server
\* still has no entry.
RefusedForMissingCursor(r) ==
    \A i \in EventsOf(r, "get") :
        req[r].log[i].v = null =>
            /\ Done(r)
            /\ req[r].resp.status = 400
            /\ req[r].resp.reqResponseCode # 202
            /\ EventsOf(r, "list") = {}
            /\ EventsOf(r, "put") = {}

C2_MissingCheckpointIsRefused ==
    /\ [](\A r \in Reqs : RefusedForMissingCursor(r))
    /\ [][\A r \in Reqs :
            (req[r].pc = "get" /\ req'[r].pc = "done"
               /\ req'[r].resp.error = "missing last processed history ID")
            => kv' = kv /\ getServerCursor(kv', req[r].name) = null]_vars

C2_Witness ==
    \E r \in Reqs :
        /\ Done(r)
        /\ \E i \in EventsOf(r, "get") : req[r].log[i].v = null
        /\ req[r].resp.error = "missing last processed history ID"
        /\ getServerCursor(kv, req[r].name) = null

\* C3: whenever a delivery writes the checkpoint, the value written under
\* cursor:<server> is the historyId taken from the delivery's envelope.
C3_PutIsEnvelopeHistoryId ==
    \A r \in Reqs :
        \A i \in EventsOf(r, "put") :
            /\ req[r].log[i].k = CursorKey(req[r].name)
            /\ req[r].log[i].v = req[r].historyId

\* C4: within one delivery the calls are ordered get, history requests, put,
\* response; a 202 response is only emitted after the checkpoint put has
\* completed, so a failed put never yields a success response.
OpRank(op) ==
    CASE op = "tokeninfo" -> 0
      [] op = "get" -> 1
      [] op = "list" -> 2
      [] op = "put" -> 3
      [] op = "resp" -> 4

C4_GetEnumeratePutRespond ==
    \A r \in Reqs :
        LET log == req[r].log IN
        /\ \A i, j \in DOMAIN log : i < j => OpRank(log[i].op) <= OpRank(log[j].op)
        /\ Cardinality(EventsOf(r, "get")) <= 1
        /\ Cardinality(EventsOf(r, "put")) <= 1
        /\ Cardinality(EventsOf(r, "resp")) <= 1
        /\ EventsOf(r, "list") # {} => EventsOf(r, "get") # {}
        /\ EventsOf(r, "put") # {} => EventsOf(r, "list") # {}
        /\ Succeeded(r) => EventsOf(r, "put") # {}
        /\ (Done(r) /\ req[r].resp.error = "KV PUT failed") =>
              req[r].resp.reqResponseCode # 202 /\ req[r].resp.status = 400

C4_Witness ==
    \E r \in Reqs :
        /\ Succeeded(r)
        /\ EventsOf(r, "get") # {}
        /\ EventsOf(r, "list") # {}
        /\ EventsOf(r, "put") # {}

\* C5: every history request of a delivery starts from the value its
\* checkpoint read returned, whatever historyId the envelope carries.
C5_EnumeratesFromStoredCursor ==
    \A r \in Reqs :
        \A i \in EventsOf(r, "list") :
            \E g \in EventsOf(r, "get") :
                /\ g < i
                /\ req[r].log[i].k = req[r].log[g].v

C5_Witness ==
    \E r \in Reqs :
        /\ EventsOf(r, "list") # {}
        /\ req[r].latestHistoryId # req[r].lastHistoryId
        /\ IsHistoryId(req[r].latestHistoryId)

\* the list requests of request r, in the order they were issued
ListEvents(r) ==
    SelectSeq(req[r].log, LAMBDA e : e.op = "list")

\* C6: a delivery identical to the one processed right before it, with no
\* mailbox or store change in between, reports no items and leaves the
\* checkpoint at what the first delivery wrote.
C6_RepeatedDeliveryIsNoOp ==
    \A r \in Reqs :
        (Succeeded(r) /\ req[r].repeats) =>
            /\ req[r].messageIds = <<>>
            /\ ~req[r].resp.hasPrompt
            /\ (prev = PrevOf(req[r]) =>
                  getServerCursor(kv, req[r].name) = req[r].latestHistoryId)

\* C7: when the history after the start cursor has more pages than pageLimit
\* (one record per page, mailbox unchanged during the call), the enumerator
\* returns hasMore = TRUE with one item per page it fetched, and its
\* latestHistoryId is a historyId a fetched page reported (or the start
\* cursor when none reported one).
C7_LongHistoryIsTruncated ==
    \A r \in Reqs :
        (/\ req[r].returned
         /\ arrivals = 0
         /\ IsHistoryId(req[r].startHistoryId)
         /\ mailLen - ParseHistoryId(req[r].startHistoryId) > pageLimit) =>
            /\ req[r].hasMore
            /\ Len(req[r].messageIds) = Len(ListEvents(r))
            /\ req[r].enumLatest \in {req[r].startHistoryId, ToString(mailLen)}

\* C8: one invocation issues at most pageLimit history requests; the first
\* carries only startHistoryId, each later one the same startHistoryId and
\* the continuation token of the page before it.
C8_AtMostPageLimitRequests ==
    \A r \in Reqs :
        LET lists == ListEvents(r) IN
        /\ Len(lists) <= pageLimit
        /\ \A j \in DOMAIN lists :
              /\ lists[j].k = req[r].startHistoryId
              /\ lists[j].v = IF j = 1 THEN undefined ELSE ToString(j - 1)

\* C9: after a truncated enumeration (hasMore = TRUE) the checkpoint written
\* is the cursor the enumerator reported.
C9_TruncatedPutIsEnumeratorCursor ==
    \A r \in Reqs :
        \A i \in EventsOf(r, "put") :
            req[r].hasMore => req[r].log[i].v = req[r].enumLatest

\* C10 as stated: a field the decoded JSON carries is used whatever the
\* attributes hold; a field it lacks is taken from the attributes.  (A JSON
\* null with no attribute behind it counts as used: the field stays empty.)
FieldRule(payloadValue, attributeValue, result) ==
    IF payloadValue = undefined THEN result = attributeValue
    ELSE IF payloadValue = null /\ attributeValue = undefined THEN result \in {null, undefined}
    ELSE result = payloadValue

FieldRuleNonNull(payloadValue, attributeValue, result) ==
    IF payloadValue \notin {undefined, null}
    THEN result = payloadValue
    ELSE result = attributeValue

C11_UndecodableDataIsTolerated ==
    (/\ decoded # NoDecoded
     /\ body.data.kind \in {"badb64", "text"}
     /\ body.attributes.emailAddress = undefined
     /\ body.attributes.historyId = undefined)
        => ~decoded.threw

\* C12: a verified delivery without x-mcp-name, without x-mcp-authorization,
\* or whose x-mcp-authorization yields a blank access token is answered 400,
\* and its trace holds no checkpoint get, no history listing and no put.
LacksMcpHeaders(r) ==
    \/ Falsy(req[r].name)
    \/ Falsy(req[r].authHeader)
    \/ Falsy(SliceBearer(req[r].authHeader))

C12_MissingMcpHeadersAre400 ==
    \A r \in Reqs :
        (req[r].verified /\ req[r].pc # "body" /\ LacksMcpHeaders(r)) =>
            /\ Done(r)
            /\ req[r].resp.status = 400
            /\ ~DidCursorWork(r)

C12_Witness ==
    \E r \in Reqs :
        /\ req[r].verified
        /\ Done(r)
        /\ req[r].name = "serverA"
        /\ req[r].authHeader = "Bearer "
        /\ req[r].resp.status = 400
        /\ req[r].resp.error = "missing access token"

\* C13: a delivery that ends because an upstream call failed (the history
\* listing, the checkpoint get or put, or the tokeninfo fetch) is answered
\* with a status outside 400..499.
UpstreamFailures ==
    {"Google API error", "KV GET failed", "KV PUT failed", "Internal Server Error"}

C13_UpstreamFailureIsNot4xx ==
    \A r \in Reqs :
        (Done(r) /\ req[r].resp.error \in UpstreamFailures) =>
            req[r].resp.status \notin 400..499

\* the history listing of request r threw: pages were requested and
\* listInboxAddsSince never returned
EnumerationFailed(r) ==
    Done(r) /\ EventsOf(r, "list") # {} /\ ~req[r].returned

\* C14: when a history page request fails (a stale or unknown checkpoint
\* included), the delivery is not answered as a 202 success, no checkpoint is
\* written for it, and its answer does not carry the status given to a
\* malformed request or to a missing checkpoint.
C14_FailedEnumerationIsDistinct ==
    \A r \in Reqs :
        EnumerationFailed(r) =>
            /\ req[r].resp.reqResponseCode # 202
            /\ EventsOf(r, "put") = {}
            /\ req[r].resp.status # Caught(IdleReq, "Unexpected token").resp.status
            /\ req[r].resp.status #
                   ErrorResp(400, "missing last processed history ID").status

\* the verifier has decided on the presented claims
Decided == req["r1"].pc # "tokeninfo"

Accepted == req["r1"].verified /\ req["r1"].pc = "body"

Rejected401 == Done("r1") /\ req["r1"].resp.status = 401

\* C15: with issuer, signer email and email_verified satisfied, a token whose
\* aud is the expected audience P or a sub-path P/x (same origin, no query, no
\* fragment) is accepted, and one whose aud is on another origin or carries a
\* query string or a fragment is rejected.
C15_AudienceMatchesPathPrefix ==
    (/\ Decided
     /\ presented.iss = "https://accounts.google.com"
     /\ presented.email = saEmailFor(req["r1"].name)
     /\ presented.email_verified \in {jsTrue, "true"}) =>
        /\ presented.aud \in {RequestUrl, RequestUrl \o "/x"} => Accepted
        /\ presented.aud \in {RequestUrl \o "?q=1", RequestUrl \o "#f",
                              "https://other/webhooks/email-notify"} => Rejected401

\* C16: a token is accepted only if its email claim equals the signer derived
\* from the request's x-mcp-name and its email_verified is true or "true"; with
\* email_verified false or "false" it is rejected with 401 even when the email
\* matches, and a token of server A's signer is rejected with 401 on a request
\* that names server B.
C16_SignerEmailMustMatchAndBeVerified ==
    Decided =>
        /\ Accepted =>
              /\ presented.email = saEmailFor(req["r1"].name)
              /\ presented.email_verified \in {jsTrue, "true"}
        /\ presented.email_verified \in {jsFalse, "false"} => Rejected401
        /\ (presented.email = saEmailFor("serverA") /\ req["r1"].name = "serverB")
              => Rejected401

C16_Witness ==
    /\ Rejected401
    /\ req["r1"].name = "serverA"
    /\ presented.iss = "https://accounts.google.com"
    /\ presented.aud = RequestUrl
    /\ presented.email = saEmailFor("serverA")
    /\ presented.email_verified = "false"
    /\ req["r1"].resp.error = "Service account email not verified"

\* C17: with audience, signer email and email_verified satisfied, a token whose
\* iss is "https://accounts.google.com" or "accounts.google.com" is accepted,
\* and a token with any other iss is rejected with 401.
C17_BothIssuersAccepted ==
    (/\ Decided
     /\ presented.aud = RequestUrl
     /\ presented.email = saEmailFor(req["r1"].name)
     /\ presented.email_verified \in {jsTrue, "true"}) =>
        IF presented.iss \in {"https://accounts.google.com", "accounts.google.com"}
        THEN Accepted
        ELSE Rejected401

\* the messages of the HTTPExceptions the verifier throws for a failed
\* authentication
AuthFailures ==
    {"Missing or invalid bearer token", "Invalid id_token", "Invalid issuer",
     "Invalid audience", "Invalid signer email", "Service account email not verified"}

\* C18: every authentication failure of the verifier is answered with 401,
\* and the response carries a WWW-Authenticate challenge together with a
\* no-store Cache-Control header.
C18_AuthFailureCarriesChallenge ==
    \A r \in Reqs :
        (Done(r) /\ req[r].resp.error \in AuthFailures) =>
            /\ req[r].resp.status = 401
            /\ {"WWW-Authenticate", "Cache-Control"} \subseteq req[r].headers

\* C19: every successfully processed delivery is answered with
\* reqResponseCode 202 and empty reqResponseContent; the response has no
\* processData when no item was enumerated, and has a processData whose
\* promptContent names the server, the mailbox and the item ids in enumeration
\* order exactly when at least one item was enumerated.
C19_ProcessDataIffItems ==
    \A r \in Reqs :
        Succeeded(r) =>
            /\ req[r].resp.reqResponseCode = 202
            /\ req[r].resp.reqResponseContent = ""
            /\ req[r].resp.hasProcessData <=> Len(req[r].messageIds) > 0
            /\ Len(req[r].messageIds) > 0 =>
                  /\ req[r].resp.name = req[r].name
                  /\ req[r].resp.emailAddress = req[r].emailAddress
                  /\ req[r].resp.emailIds = req[r].messageIds

\* the checkpoint value request r read, when it has read one
ReadOf(r) == {req[r].log[i].v : i \in EventsOf(r, "get")}

\* C20: two deliveries for the same server are not kept apart: both can read
\* the same old checkpoint before either writes; deliveries that read the same
\* checkpoint enumerate from the same start, and the stored checkpoint is the
\* historyId of the delivery whose put settled last, larger or smaller.
C20_LastPutWins ==
    /\ prev.valid =>
          getServerCursor(kv, prev.name) = LatestHistoryIdOf(prev.historyId)
    /\ \A r, q \in Reqs :
          (/\ req[r].name = req[q].name
           /\ ReadOf(r) # {} /\ ReadOf(r) = ReadOf(q)
           /\ Len(ListEvents(r)) > 0 /\ Len(ListEvents(q)) > 0) =>
              ListEvents(r)[1].k = ListEvents(q)[1].k

C20_Witness ==
    /\ req["r1"].name = "serverA" /\ req["r2"].name = "serverA"
    /\ ReadOf("r1") = {"0"} /\ ReadOf("r2") = {"0"}
    /\ Succeeded("r1") /\ Succeeded("r2")
    /\ Len(req["r1"].resp.emailIds) > 0
    /\ req["r2"].resp.emailIds = req["r1"].resp.emailIds
    /\ req["r1"].historyId = "2" /\ req["r2"].historyId = "1"
    /\ prev = PrevOf(req["r2"])
    /\ getServerCursor(kv, "serverA") = "1"

\* the checkpoint key that belongs to the server request r names
OwnKey(r) == "cursor:" \o req[r].name

\* C21: a delivery whose x-mcp-name is S reads and writes only cursor:S: every
\* key its trace names in a get or a put is cursor:S, and a step of the
\* delivery leaves the checkpoint of every other server as it was, however
\* deliveries for different servers interleave.
C21_OnlyOwnCursorTouched ==
    /\ [](\A r \in Reqs :
            \A i \in EventsOf(r, "get") \cup EventsOf(r, "put") :
                req[r].log[i].k = OwnKey(r))
    /\ [][\A r \in Reqs :
            req'[r] # req[r] =>
                \A k \in Keys \ {OwnKey(r)} : kv'[k] = kv[k]]_vars

C21_Witness ==
    /\ req["r1"].name = "serverA" /\ req["r2"].name = "serverB"
    /\ req["r1"].historyId = "1" /\ req["r2"].historyId = "2"
    /\ Succeeded("r1") /\ Succeeded("r2")
    /\ kv["cursor:serverA"] = "1"
    /\ kv["cursor:serverB"] = "2"

\* C22: the enumeration result is a set: a message id that several history
\* records or pages name in messagesAdded occurs once in the returned
\* messageIds, and every returned id comes from a messagesAdded entry.
C22_ResultIsSetOfAddedIds ==
    \A r \in Reqs :
        req[r].returned =>
            /\ \A i, j \in DOMAIN req[r].messageIds :
                  i # j => req[r].messageIds[i] # req[r].messageIds[j]
            /\ \A i \in DOMAIN req[r].messageIds :
                  req[r].messageIds[i] \in {"m1", "m2"}

\* C23: the checkpoint of a server only advances: no step of a delivery
\* replaces a stored history id by an older one, whatever historyId the
\* delivery carries.
C23_CheckpointNeverMovesBack ==
    [][\A k \in Keys :
          (IsHistoryId(kv[k]) /\ IsHistoryId(kv'[k])) =>
              ParseHistoryId(kv'[k]) >= ParseHistoryId(kv[k])]_vars

\* C24: the value stored under cursor:<server> is always a genuine history
\* id (of the watch, of commitHistory, or carried by a delivery), and a
\* delivery that carries no historyId writes nothing.
C24_CheckpointIsGenuineCursor ==
    /\ \A k \in Keys : kv[k] = null \/ IsHistoryId(kv[k])
    /\ \A r \in Reqs :
          (InHandler(r) \/ Done(r)) /\ Falsy(req[r].historyId) =>
              EventsOf(r, "put") = {}

\* the request set the headers of the local expiry check (google-auth.ts
\* lines 55-60): its bearer id_token has an exp earlier than now + 30 s
StaleToken(r) == "Pragma" \in req[r].headers

\* C25: a bearer id_token whose exp is earlier than now + 30 s is rejected
\* with 401 by the middleware itself: tokeninfo is not called for it and the
\* handler never runs.
C25_StaleTokenShortCircuits ==
    \A r \in Reqs :
        StaleToken(r) =>
            /\ Done(r)
            /\ req[r].resp.status = 401
            /\ EventsOf(r, "tokeninfo") = {}
            /\ ~req[r].verified

\* C26: listInboxAddsSince terminates when every page request returns: against
\* an endpoint whose every page carries a nextPageToken the call returns with
\* hasMore = true, and the delivery reaches its response.
C26_EndlessPagingTerminates ==
    <>(/\ Done("r1")
       /\ req["r1"].returned
       /\ req["r1"].hasMore)

C26_Witness ==
    /\ Done("r1")
    /\ req["r1"].returned
    /\ req["r1"].hasMore
    /\ Len(ListEvents("r1")) > pageLimit
    /\ req["r1"].pageToken = "next"
    /\ req["r1"].resp.reqResponseCode = 202

====
